---- MODULE Spec2Model ----
(***************************************************************************)
(* MediaRate: the catalog browser with its rating workflow (App, the file  *)
(* src/unnamed/part_000) and the two authoring dialogs (AddMediaDialog and *)
(* EditMediaDialog, src/src/components/AddMediaDialog.tsx), all reading    *)
(* and writing one remote record store (blink.db.media, blink.db.ratings). *)
(*                                                                         *)
(* Every handler is one action up to its first await; the continuation of  *)
(* an await is a second action that fires when the store call resolves     *)
(* (success) or rejects (failure).  Calls in flight are state.             *)
(***************************************************************************)
EXTENDS Integers, Sequences, FiniteSets

(***************************************************************************)
(* Bounds of the model.                                                    *)
(***************************************************************************)
\* longest text typed into a text input (title, description, review, ...)
MaxLen == 2
\* rating submissions (ratings.create / ratings.update) in flight at once
MaxInflight == 2
\* ratings.list calls of loadUserRatings in flight at once
MaxLoads == 1
\* fresh rating ids generated in one run (Date.now()/Math.random() ids)
MaxRatingIds == 2
\* fresh media ids generated in one run
MaxMediaIds == 1

(***************************************************************************)
(* Text.  A string is a sequence of characters over a two-letter alphabet: *)
(* one whitespace character and one other character.  JavaScript's null is *)
(* a value of its own, distinct from every string, the empty one included. *)
(***************************************************************************)
Chars == {" ", "a"}

Strings == UNION {[1..k -> Chars] : k \in 0..MaxLen}

NULL == <<"null">>

\* null in a field whose values come from a select list (country), which
\* the model writes as TLA+ strings
NULLC == "null"

\* `x || null` on a select value
orNullC(c) == IF c = "" THEN NULLC ELSE c

\* `x || ''` on a select value or null
orEmptyC(c) == IF c = NULLC THEN "" ELSE c

RECURSIVE trimStart(_)
trimStart(s) ==
    IF s = <<>> THEN s
    ELSE IF Head(s) = " " THEN trimStart(Tail(s)) ELSE s

RECURSIVE trimEnd(_)
trimEnd(s) ==
    IF s = <<>> THEN s
    ELSE IF s[Len(s)] = " " THEN trimEnd(SubSeq(s, 1, Len(s) - 1)) ELSE s

\* a trim that forgets the end of the string
trimOnlyStart(s) == trimStart(s)

\* String.prototype.trim
trim(s) == trimEnd(trimStart(s))

\* `x || null` on a string x: the empty string is falsy
orNull(s) == IF s = <<>> THEN NULL ELSE s

\* `x || ''` on a string-or-null x
orEmpty(v) == IF v = NULL THEN <<>> ELSE v

(***************************************************************************)
(* Identities.                                                             *)
(***************************************************************************)
Users == {"u1", "u2"}

\* user === null
NoUser == "none"

\* the five star buttons of the rating dialog
MaxStars == 5

Stars == 1..MaxStars


(***************************************************************************)
(* Records of the store.  A timestamp is kept only where the code reads it *)
(* back: createdAt orders media.list; it is the number of the creation.    *)
(***************************************************************************)
SeedMedia1 ==
    [id |-> 1, title |-> <<"a">>, type |-> "movie", genre |-> "Action",
     releaseYear |-> 2020, description |-> NULL, coverImage |-> NULL,
     country |-> NULLC, createdAt |-> 1]

SeedMedia2 ==
    [id |-> 2, title |-> <<"a", "a">>, type |-> "book", genre |-> "Fiction",
     releaseYear |-> 2021, description |-> <<"a">>, coverImage |-> NULL,
     country |-> NULLC, createdAt |-> 2]

\* selectedMedia === null
NoMedia ==
    [id |-> 0, title |-> NULL, type |-> "", genre |-> "", releaseYear |-> 0,
     description |-> NULL, coverImage |-> NULL, country |-> NULLC,
     createdAt |-> 0]

\* a rating left in the store by an earlier page session of user u1
SeedRating ==
    [id |-> 1, userId |-> "u1", mediaId |-> 1, rating |-> 3, review |-> NULL]

\* ratings of the first media that two other users saved
OtherRatings ==
    {[id |-> 2, userId |-> "u2", mediaId |-> 1, rating |-> 4,
      review |-> <<"a">>],
     [id |-> 3, userId |-> "u3", mediaId |-> 1, rating |-> 1,
      review |-> NULL]}

\* the ids a run generates are new: they follow the ids of the seeds
FirstRatingId == Cardinality(OtherRatings \cup {SeedRating}) + 1

FirstMediaId == Cardinality({SeedMedia1, SeedMedia2}) + 1

\* media.list's page size (limit: 20)
PageSize == 20

VARIABLES
    \* the remote store
    dbMedia, dbRatings,
    \* the ids generated so far (Date.now() and Math.random() make each new)
    nextMediaId, nextRatingId,
    \* App: useState
    user, loading, media, userRatings, searchQuery, selectedMedia,
    showRatingDialog, rating, review,
    \* App: store calls in flight
    mediaLoads, ratingLoads, submits,
    \* the toaster (useToast): the title of the last toast raised
    toast,
    \* AddMediaDialog: useState, the media.create call in flight, and the
    \* number of onMediaAdded() calls made, modulo 2
    addOpen, addLoading, addFormData, addCalls, onMediaAddedCalls,
    \* EditMediaDialog: the media prop, useState, the position of the
    \* handler that is awaiting a store call, and the number of
    \* onMediaUpdated() calls made, modulo 2
    editMedia, editOpen, editLoading, showDeleteConfirm, editFormData,
    editOp, onMediaUpdatedCalls

storeVars == <<dbMedia, dbRatings, nextMediaId, nextRatingId>>

appVars ==
    <<user, loading, media, userRatings, searchQuery, selectedMedia,
      showRatingDialog, rating, review, mediaLoads, ratingLoads, submits>>

addVars == <<addOpen, addLoading, addFormData, addCalls, onMediaAddedCalls>>

editVars ==
    <<editMedia, editOpen, editLoading, showDeleteConfirm, editFormData,
      editOp, onMediaUpdatedCalls>>

vars == <<storeVars, appVars, addVars, editVars, toast>>

(***************************************************************************)
(* Helpers.                                                                *)
(***************************************************************************)
Min(a, b) == IF a <= b THEN a ELSE b

RemoveAt(q, i) == SubSeq(q, 1, i - 1) \o SubSeq(q, i + 1, Len(q))

Range(q) == {q[i] : i \in DOMAIN q}

RECURSIVE byCreatedAtDesc(_)
byCreatedAtDesc(S) ==
    IF S = {} THEN <<>>
    ELSE LET x == CHOOSE x \in S : \A y \in S : y.createdAt <= x.createdAt
         IN  <<x>> \o byCreatedAtDesc(S \ {x})

\* blink.db.media.list({orderBy: {createdAt: 'desc'}, limit: 20})
mediaList(db) ==
    LET all == byCreatedAtDesc(db)
    IN  SubSeq(all, 1, Min(Len(all), PageSize))

\* blink.db.ratings.list({where: {userId: uid}})
ratingsOfUser(db, uid) == {r \in db : r.userId = uid}

\* the maps `ratings.forEach(r => ratingsMap[r.mediaId] = r)` can build: of
\* two listed ratings of one media the later in the list wins, and the
\* store fixes no order
ratingsMaps(ratings) ==
    {f \in [{r.mediaId : r \in ratings} -> ratings] :
        \A m \in DOMAIN f : f[m].mediaId = m}

\* the page is rendered: neither the spinner nor the sign-in screen
rendered == ~loading /\ user # NoUser


(***************************************************************************)
(* App (src/unnamed/part_000).                                             *)
(*                                                                         *)
(* toast is the title of the last toast raised: toast({title: ...}).       *)
(***************************************************************************)

\* useState initial values and no call in flight
AppInit ==
    /\ user = NoUser
    /\ loading = TRUE
    /\ media = <<>>
    /\ userRatings = <<>>
    /\ searchQuery = <<>>
    /\ selectedMedia = NoMedia
    /\ showRatingDialog = FALSE
    /\ rating = 0
    /\ review = <<>>
    /\ mediaLoads = 0
    /\ ratingLoads = <<>>
    /\ submits = <<>>

\* The auth provider reports state (u, isLoading).  The effect on [user]
\* runs when a user other than the last one is reported: it starts
\* loadMedia() and loadUserRatings(), each up to its await.  userRatings is
\* not touched.
onAuthStateChanged(u, isLoading) ==
    /\ u # user \/ isLoading # loading
    /\ u = NoUser \/ ~isLoading
    /\ user' = u
    /\ loading' = isLoading
    /\ IF u # NoUser /\ u # user
       THEN /\ Len(ratingLoads) < MaxLoads
            /\ mediaLoads < MaxLoads
            /\ mediaLoads' = mediaLoads + 1
            /\ ratingLoads' =
                 Append(ratingLoads,
                        [userId |-> u, served |-> FALSE, result |-> {}])
       ELSE UNCHANGED <<mediaLoads, ratingLoads>>
    /\ UNCHANGED searchQuery
    /\ UNCHANGED <<media, userRatings, selectedMedia, showRatingDialog,
                   rating, review, submits>>
    /\ UNCHANGED <<storeVars, addVars, editVars, toast>>

\* loadMedia, after `await blink.db.media.list(...)` resolved
loadMediaResolved ==
    /\ mediaLoads > 0
    /\ mediaLoads' = mediaLoads - 1
    /\ media' = mediaList(dbMedia)
    /\ UNCHANGED searchQuery
    /\ UNCHANGED <<user, loading, userRatings, selectedMedia,
                   showRatingDialog, rating, review, ratingLoads, submits>>
    /\ UNCHANGED <<storeVars, addVars, editVars, toast>>

\* loadMedia, the catch branch: the error is logged and nothing else
loadMediaRejected ==
    /\ mediaLoads > 0
    /\ mediaLoads' = mediaLoads - 1
    /\ UNCHANGED searchQuery
    /\ UNCHANGED <<user, loading, media, userRatings, selectedMedia,
                   showRatingDialog, rating, review, ratingLoads, submits>>
    /\ UNCHANGED <<storeVars, addVars, editVars, toast>>

\* The store answers the i-th ratings.list call in flight with the ratings
\* of the user the call names, as they are at that moment.
ratingsListServed(i) ==
    /\ i \in DOMAIN ratingLoads
    /\ ~ratingLoads[i].served
    /\ ratingLoads' =
         [ratingLoads EXCEPT
            ![i] = [userId |-> ratingLoads[i].userId,
                    served |-> TRUE,
                    result |-> ratingsOfUser(dbRatings,
                                             ratingLoads[i].userId)]]
    /\ UNCHANGED searchQuery
    /\ UNCHANGED <<user, loading, media, userRatings, selectedMedia,
                   showRatingDialog, rating, review, mediaLoads, submits>>
    /\ UNCHANGED <<storeVars, addVars, editVars, toast>>

\* loadUserRatings, after `await blink.db.ratings.list(...)` resolved:
\* the map built from the answer replaces userRatings
loadUserRatingsResolved(i) ==
    /\ i \in DOMAIN ratingLoads
    /\ ratingLoads[i].served
    /\ \E ratingsMap \in ratingsMaps(ratingLoads[i].result) :
          userRatings' = ratingsMap
    /\ ratingLoads' = RemoveAt(ratingLoads, i)
    /\ UNCHANGED searchQuery
    /\ UNCHANGED <<user, loading, media, selectedMedia, showRatingDialog,
                   rating, review, mediaLoads, submits>>
    /\ UNCHANGED <<storeVars, addVars, editVars, toast>>

\* loadUserRatings, the catch branch: the error is logged and nothing else
loadUserRatingsRejected(i) ==
    /\ i \in DOMAIN ratingLoads
    /\ ratingLoads' = RemoveAt(ratingLoads, i)
    /\ UNCHANGED searchQuery
    /\ UNCHANGED <<user, loading, media, userRatings, selectedMedia,
                   showRatingDialog, rating, review, mediaLoads, submits>>
    /\ UNCHANGED <<storeVars, addVars, editVars, toast>>

\* userRatings[id]: the entry, or undefined
hasRating(map, id) == id \in DOMAIN map

\* the characters of the titles, descriptions and queries of the search
FilterChars == {"a", "A", "b"}

FilterStrings == UNION {[1..k -> FilterChars] : k \in 0..MaxLen}

\* a toLowerCase that leaves the letters as they are
keepCase(s) == s

\* String.prototype.toLowerCase
toLowerCase(s) == [k \in DOMAIN s |-> IF s[k] = "A" THEN "a" ELSE s[k]]

\* String.prototype.includes
includes(s, q) ==
    \E i \in 0..(Len(s) - Len(q)) : SubSeq(s, i + 1, i + Len(q)) = q

\* the predicate of media.filter; `?.` gives undefined on an absent
\* description
matchesQuery(item) ==
    \/ searchQuery = <<>>
    \/ includes(toLowerCase(item.title), toLowerCase(searchQuery))
    \/ /\ item.description # NULL
       /\ includes(toLowerCase(item.description), toLowerCase(searchQuery))

\* const filteredMedia = media.filter(...)
filteredMedia == SelectSeq(media, matchesQuery)

\* onChange={(e) => setSearchQuery(e.target.value)}
setSearchQuery(text) ==
    /\ rendered
    /\ ~showRatingDialog
    /\ searchQuery' = text
    /\ UNCHANGED <<user, loading, media, userRatings, selectedMedia,
                   showRatingDialog, rating, review, mediaLoads, ratingLoads,
                   submits>>
    /\ UNCHANGED <<storeVars, addVars, editVars, toast>>

\* a handleRateMedia that opens the dialog on the inputs as they were left
handleRateMediaUnseeded(mediaItem) ==
    /\ rendered
    /\ ~showRatingDialog
    /\ mediaItem \in Range(media)
    /\ selectedMedia' = mediaItem
    /\ showRatingDialog' = TRUE
    /\ UNCHANGED <<searchQuery, rating, review>>
    /\ UNCHANGED <<user, loading, media, userRatings, mediaLoads,
                   ratingLoads, submits>>
    /\ UNCHANGED <<storeVars, addVars, editVars, toast>>

\* "Rate This" on a card of the list.  The dialog is modal: no card can be
\* pressed while it is open.
handleRateMedia(mediaItem) ==
    /\ rendered
    /\ ~showRatingDialog
    /\ mediaItem \in Range(media)
    /\ selectedMedia' = mediaItem
    /\ rating' = IF hasRating(userRatings, mediaItem.id)
                 THEN userRatings[mediaItem.id].rating ELSE 0
    /\ review' = IF hasRating(userRatings, mediaItem.id)
                 THEN orEmpty(userRatings[mediaItem.id].review) ELSE <<>>
    /\ showRatingDialog' = TRUE
    /\ UNCHANGED searchQuery
    /\ UNCHANGED <<user, loading, media, userRatings, mediaLoads,
                   ratingLoads, submits>>
    /\ UNCHANGED <<storeVars, addVars, editVars, toast>>

\* a star button of the open dialog: onClick={() => setRating(star)}
setRating(star) ==
    /\ rendered
    /\ showRatingDialog
    /\ rating' = star
    /\ UNCHANGED searchQuery
    /\ UNCHANGED <<user, loading, media, userRatings, selectedMedia,
                   showRatingDialog, review, mediaLoads, ratingLoads, submits>>
    /\ UNCHANGED <<storeVars, addVars, editVars, toast>>

\* the review textarea: onChange={(e) => setReview(e.target.value)}
setReview(text) ==
    /\ rendered
    /\ showRatingDialog
    /\ review' = text
    /\ UNCHANGED searchQuery
    /\ UNCHANGED <<user, loading, media, userRatings, selectedMedia,
                   showRatingDialog, rating, mediaLoads, ratingLoads, submits>>
    /\ UNCHANGED <<storeVars, addVars, editVars, toast>>

\* Cancel, or the dialog's own dismissal: setShowRatingDialog(false)
setShowRatingDialog(value) ==
    /\ rendered
    /\ showRatingDialog
    /\ showRatingDialog' = value
    /\ UNCHANGED searchQuery
    /\ UNCHANGED <<user, loading, media, userRatings, selectedMedia,
                   rating, review, mediaLoads, ratingLoads, submits>>
    /\ UNCHANGED <<storeVars, addVars, editVars, toast>>


\* const ratingData = {id: existingRating?.id || `rating_...`, userId,
\*                     mediaId, rating, review: review.trim() || null}
ratingDataOf(map, uid, mediaItem, stars, text, freshId) ==
    [id |-> IF hasRating(map, mediaItem.id) THEN map[mediaItem.id].id
            ELSE freshId,
     userId |-> uid,
     mediaId |-> mediaItem.id,
     rating |-> stars,
     review |-> orNull(trim(text))]

\* The store call handleSubmitRating awaits: ratings.update(existing.id,
\* {rating, review, updatedAt}) when the map has an entry for the selected
\* media, ratings.create(ratingData) otherwise.  `data` is the ratingData
\* the continuation writes into the map.
submitCallOf(map, uid, mediaItem, stars, text, freshId) ==
    LET ratingData == ratingDataOf(map, uid, mediaItem, stars, text, freshId)
    IN  [op |-> IF hasRating(map, mediaItem.id) THEN "update" ELSE "create",
         id |-> ratingData.id,
         rating |-> stars,
         review |-> orNull(trim(text)),
         data |-> ratingData]

\* handleSubmitRating without its `if (rating === 0) return`
handleSubmitRatingUnchecked ==
    /\ rendered
    /\ showRatingDialog
    /\ Len(submits) < MaxInflight
    /\ hasRating(userRatings, selectedMedia.id)
         \/ nextRatingId < FirstRatingId + MaxRatingIds
    /\ submits' =
         Append(submits,
                submitCallOf(userRatings, user, selectedMedia, rating,
                             review, nextRatingId))
    /\ nextRatingId' =
         IF hasRating(userRatings, selectedMedia.id)
         THEN nextRatingId ELSE nextRatingId + 1
    /\ UNCHANGED searchQuery
    /\ UNCHANGED <<user, loading, media, userRatings, selectedMedia,
                   showRatingDialog, rating, review, mediaLoads, ratingLoads>>
    /\ UNCHANGED <<dbMedia, dbRatings, nextMediaId, addVars, editVars, toast>>

\* "Save Rating", up to the await.  The button's own `disabled={rating ===
\* 0}` repeats the handler's first check; the handler is modelled as its
\* code stands, so that its early return is a step of the model.
handleSubmitRating ==
    /\ rendered
    /\ showRatingDialog
    /\ IF rating = 0
       THEN /\ toast' = "Rating Required"
            /\ UNCHANGED <<submits, nextRatingId>>
       ELSE /\ Len(submits) < MaxInflight
            /\ hasRating(userRatings, selectedMedia.id)
                 \/ nextRatingId < FirstRatingId + MaxRatingIds
            /\ submits' =
                 Append(submits,
                        submitCallOf(userRatings, user, selectedMedia, rating,
                                     review, nextRatingId))
            /\ nextRatingId' =
                 IF hasRating(userRatings, selectedMedia.id)
                 THEN nextRatingId ELSE nextRatingId + 1
            /\ UNCHANGED toast
    /\ UNCHANGED searchQuery
    /\ UNCHANGED <<user, loading, media, userRatings, selectedMedia,
                   showRatingDialog, rating, review, mediaLoads, ratingLoads>>
    /\ UNCHANGED <<dbMedia, dbRatings, nextMediaId, addVars, editVars>>

\* what the store holds after the call: create adds the record; update
\* rewrites rating and review of the record with the id it names, and
\* finds nothing to rewrite when no record has that id
ratingsAfter(db, call) ==
    IF call.op = "create"
    THEN db \cup {call.data}
    ELSE {IF r.id = call.id
          THEN [r EXCEPT !.rating = call.rating, !.review = call.review]
          ELSE r : r \in db}

\* setUserRatings(prev => ({...prev, [selectedMedia.id]: ratingData}))
withRating(map, ratingData) ==
    [m \in DOMAIN map \cup {ratingData.mediaId} |->
        IF m = ratingData.mediaId THEN ratingData ELSE map[m]]

\* handleSubmitRating, after its await resolved: the store has done the
\* write, the map takes ratingData, the dialog closes, the inputs reset
submitResolved(i) ==
    /\ i \in DOMAIN submits
    /\ dbRatings' = ratingsAfter(dbRatings, submits[i])
    /\ userRatings' = withRating(userRatings, submits[i].data)
    /\ showRatingDialog' = FALSE
    /\ rating' = 0
    /\ review' = <<>>
    /\ submits' = RemoveAt(submits, i)
    /\ toast' = IF submits[i].op = "update" THEN "Rating Updated"
                ELSE "Rating Added"
    /\ UNCHANGED searchQuery
    /\ UNCHANGED <<user, loading, media, selectedMedia, mediaLoads,
                   ratingLoads>>
    /\ UNCHANGED <<dbMedia, nextMediaId, nextRatingId, addVars, editVars>>

\* a catch branch that closes the dialog and resets the inputs, as the try
\* block does after the write
submitRejectedResetting(i) ==
    /\ i \in DOMAIN submits
    /\ toast' = "Error"
    /\ showRatingDialog' = FALSE
    /\ rating' = 0
    /\ review' = <<>>
    /\ submits' = RemoveAt(submits, i)
    /\ UNCHANGED searchQuery
    /\ UNCHANGED <<user, loading, media, userRatings, selectedMedia,
                   mediaLoads, ratingLoads>>
    /\ UNCHANGED <<storeVars, addVars, editVars>>

\* handleSubmitRating, the catch branch: an error toast and nothing else
submitRejected(i) ==
    /\ i \in DOMAIN submits
    /\ submits' = RemoveAt(submits, i)
    /\ toast' = "Error"
    /\ UNCHANGED searchQuery
    /\ UNCHANGED <<user, loading, media, userRatings, selectedMedia,
                   showRatingDialog, rating, review, mediaLoads, ratingLoads>>
    /\ UNCHANGED <<storeVars, addVars, editVars>>



(***************************************************************************)
(* AddMediaDialog (src/src/components/AddMediaDialog.tsx, lines 16-306).   *)
(***************************************************************************)

\* the draft with every field empty: the useState initial value and the
\* value handleSubmit resets to
EmptyForm ==
    [title |-> <<>>, type |-> "", genre |-> "", releaseYear |-> "",
     description |-> <<>>, coverImage |-> <<>>, country |-> ""]

FormFields == DOMAIN EmptyForm

AddInit ==
    /\ addOpen = FALSE
    /\ addLoading = FALSE
    /\ addFormData = EmptyForm
    /\ addCalls = <<>>
    /\ onMediaAddedCalls = 0

\* some of the entries of the `genres` table
genres(type) ==
    CASE type = "movie" -> {"Action"}
      [] type = "tv"    -> {"K-Drama"}
      [] type = "book"  -> {"Fiction"}
      [] OTHER          -> {}

\* parseInt on the values the year select offers
parseInt(text) ==
    CASE text = "1900" -> 1900
      [] text = "2020" -> 2020

\* <Dialog open={open} onOpenChange={setOpen}>: the trigger, Cancel, and
\* the dialog's own dismissal
addSetOpen(value) ==
    /\ value # addOpen
    /\ addOpen' = value
    /\ UNCHANGED <<addLoading, addFormData, addCalls, onMediaAddedCalls>>
    /\ UNCHANGED <<storeVars, appVars, editVars, toast>>

\* a handleInputChange that keeps the genre, as the Edit dialog's does
addHandleInputChangeKeepingGenre(field, value) ==
    /\ addOpen
    /\ addFormData' = [addFormData EXCEPT ![field] = value]
    /\ UNCHANGED <<addOpen, addLoading, addCalls, onMediaAddedCalls>>
    /\ UNCHANGED <<storeVars, appVars, editVars, toast>>

\* setFormData(prev => ({...prev, [field]: value,
\*                       ...(field === 'type' && {genre: ''})}))
addHandleInputChange(field, value) ==
    /\ addOpen
    /\ addFormData' =
         IF field = "type"
         THEN [addFormData EXCEPT !.type = value, !.genre = ""]
         ELSE [addFormData EXCEPT ![field] = value]
    /\ UNCHANGED <<addOpen, addLoading, addCalls, onMediaAddedCalls>>
    /\ UNCHANGED <<storeVars, appVars, editVars, toast>>

\* const mediaData = {id: `media_...`, title: formData.title.trim(), ...}
mediaDataOf(form, freshId) ==
    [id |-> freshId,
     title |-> trim(form.title),
     type |-> form.type,
     genre |-> form.genre,
     releaseYear |-> parseInt(form.releaseYear),
     description |-> orNull(trim(form.description)),
     coverImage |-> orNull(trim(form.coverImage)),
     country |-> orNullC(form.country),
     createdAt |-> freshId]

\* the check without its genre operand
addMissingInformationButGenre(form) ==
    \/ form.title = <<>>
    \/ form.type = ""
    \/ form.releaseYear = ""

\* if (!formData.title || !formData.type || !formData.genre ||
\*     !formData.releaseYear)
addMissingInformation(form) ==
    \/ form.title = <<>>
    \/ form.type = ""
    \/ form.genre = ""
    \/ form.releaseYear = ""

\* The form's onSubmit, up to the await.  The submit button is disabled
\* while loading, and nothing else keeps two submissions apart; its
\* disabled expression also repeats the handler's first check, which is
\* modelled as the handler has it, so that its early return is a step.
addHandleSubmit ==
    /\ addOpen
    /\ ~addLoading
    /\ IF addMissingInformation(addFormData)
       THEN /\ toast' = "Missing Information"
            /\ UNCHANGED <<addLoading, addCalls, nextMediaId>>
       ELSE /\ nextMediaId < FirstMediaId + MaxMediaIds
            /\ addLoading' = TRUE
            /\ addCalls' = <<mediaDataOf(addFormData, nextMediaId)>>
            /\ nextMediaId' = nextMediaId + 1
            /\ UNCHANGED toast
    /\ UNCHANGED <<addOpen, addFormData, onMediaAddedCalls>>
    /\ UNCHANGED <<dbMedia, dbRatings, nextRatingId, appVars, editVars>>

\* handleSubmit after `await blink.db.media.create(mediaData)` resolved,
\* with its finally block
addCreateResolved ==
    /\ addCalls # <<>>
    /\ dbMedia' = dbMedia \cup {addCalls[1]}
    /\ toast' = "Media Added Successfully!"
    /\ addFormData' = EmptyForm
    /\ addOpen' = FALSE
    /\ onMediaAddedCalls' = (onMediaAddedCalls + 1) % 2
    /\ addLoading' = FALSE
    /\ addCalls' = <<>>
    /\ UNCHANGED <<dbRatings, nextMediaId, nextRatingId, appVars, editVars>>

\* a catch branch that resets the draft and closes, as the try block does
\* after the create
addCreateRejectedClosing ==
    /\ addCalls # <<>>
    /\ toast' = "Error"
    /\ addFormData' = EmptyForm
    /\ addOpen' = FALSE
    /\ addLoading' = FALSE
    /\ addCalls' = <<>>
    /\ UNCHANGED onMediaAddedCalls
    /\ UNCHANGED <<storeVars, appVars, editVars>>

\* handleSubmit's catch branch, with its finally block
addCreateRejected ==
    /\ addCalls # <<>>
    /\ toast' = "Error"
    /\ addLoading' = FALSE
    /\ addCalls' = <<>>
    /\ UNCHANGED <<addOpen, addFormData, onMediaAddedCalls>>
    /\ UNCHANGED <<storeVars, appVars, editVars>>


(***************************************************************************)
(* EditMediaDialog (src/src/components/AddMediaDialog.tsx, lines 323-690). *)
(* One dialog is modelled, the one whose media prop is the first record.   *)
(***************************************************************************)

\* new Date().getFullYear()
CurrentYear == 2026

\* the draft seeded from the media prop: useState's initial value and
\* resetForm's value
formOf(m) ==
    [title |-> orEmpty(m.title),
     type |-> IF m.type = "" THEN "movie" ELSE m.type,
     genre |-> m.genre,
     releaseYear |-> IF m.releaseYear = 0 THEN CurrentYear ELSE m.releaseYear,
     country |-> orEmptyC(m.country),
     description |-> orEmpty(m.description),
     coverImage |-> orEmpty(m.coverImage)]

\* no handler is awaiting a store call
Idle == [pc |-> "idle", ratings |-> <<>>, i |-> 0, data |-> EmptyForm]

EditInit ==
    /\ editMedia = SeedMedia1
    /\ editOpen = FALSE
    /\ editLoading = FALSE
    /\ showDeleteConfirm = FALSE
    /\ editFormData = formOf(SeedMedia1)
    /\ editOp = Idle
    /\ onMediaUpdatedCalls = 0

\* onOpenChange: setOpen(newOpen); if (newOpen) resetForm().  It is called
\* by the Edit trigger, by the dialog's own dismissal, and (with false) by
\* the Cancel button of the form.
editOnOpenChange(newOpen) ==
    /\ newOpen # editOpen
    /\ editOpen' = newOpen
    /\ IF newOpen
       THEN /\ editFormData' = formOf(editMedia)
            /\ showDeleteConfirm' = FALSE
       ELSE UNCHANGED <<editFormData, showDeleteConfirm>>
    /\ UNCHANGED <<editMedia, editLoading, editOp, onMediaUpdatedCalls>>
    /\ UNCHANGED <<storeVars, appVars, addVars, toast>>

\* setFormData(prev => ({...prev, [field]: value}))
editHandleInputChange(field, value) ==
    /\ editOpen
    /\ editFormData' = [editFormData EXCEPT ![field] = value]
    /\ UNCHANGED <<editMedia, editOpen, editLoading, showDeleteConfirm,
                   editOp, onMediaUpdatedCalls>>
    /\ UNCHANGED <<storeVars, appVars, addVars, toast>>

\* const updatedData = {...formData, title: formData.title.trim(), ...}
updatedDataOf(form) ==
    [form EXCEPT !.title = trim(form.title),
                 !.description = orNull(trim(form.description)),
                 !.coverImage = orNull(trim(form.coverImage))]

\* The form's onSubmit, up to the await.  The submit button is disabled
\* while loading.
editHandleSubmit ==
    /\ editOpen
    /\ ~editLoading
    /\ IF trim(editFormData.title) = <<>>
       THEN /\ toast' = "Title Required"
            /\ UNCHANGED <<editLoading, editOp>>
       ELSE /\ editLoading' = TRUE
            /\ editOp' = [Idle EXCEPT !.pc = "update",
                                      !.data = updatedDataOf(editFormData)]
            /\ UNCHANGED toast
    /\ UNCHANGED <<editMedia, editOpen, showDeleteConfirm, editFormData,
                   onMediaUpdatedCalls>>
    /\ UNCHANGED <<storeVars, appVars, addVars>>

\* what media.update(id, data) leaves in the store: the fields of data
\* rewritten in the record with that id, if there is one
mediaAfterUpdate(db, id, data) ==
    {IF m.id = id
     THEN [m EXCEPT !.title = data.title, !.type = data.type,
                    !.genre = data.genre, !.releaseYear = data.releaseYear,
                    !.country = data.country,
                    !.description = data.description,
                    !.coverImage = data.coverImage]
     ELSE m : m \in db}

\* handleSubmit after `await blink.db.media.update(...)` resolved, with
\* its finally block
editUpdateResolved ==
    /\ editOp.pc = "update"
    /\ dbMedia' = mediaAfterUpdate(dbMedia, editMedia.id, editOp.data)
    /\ toast' = "Media Updated"
    /\ editOpen' = FALSE
    /\ onMediaUpdatedCalls' = (onMediaUpdatedCalls + 1) % 2
    /\ editLoading' = FALSE
    /\ editOp' = Idle
    /\ UNCHANGED <<editMedia, showDeleteConfirm, editFormData>>
    /\ UNCHANGED <<dbRatings, nextMediaId, nextRatingId, appVars, addVars>>

\* handleSubmit's catch branch, with its finally block
editUpdateRejected ==
    /\ editOp.pc = "update"
    /\ toast' = "Error"
    /\ editLoading' = FALSE
    /\ editOp' = Idle
    /\ UNCHANGED <<editMedia, editOpen, showDeleteConfirm, editFormData,
                   onMediaUpdatedCalls>>
    /\ UNCHANGED <<storeVars, appVars, addVars>>

\* The Delete button (shown while !showDeleteConfirm) sets the flag; the
\* Cancel button of the confirm row (shown while showDeleteConfirm) clears
\* it.  Both are disabled while loading.
setShowDeleteConfirm(value) ==
    /\ editOpen
    /\ ~editLoading
    /\ showDeleteConfirm = ~value
    /\ showDeleteConfirm' = value
    /\ UNCHANGED <<editMedia, editOpen, editLoading, editFormData, editOp,
                   onMediaUpdatedCalls>>
    /\ UNCHANGED <<storeVars, appVars, addVars, toast>>

\* handleDelete behind a button that is rendered without the confirm row
handleDeleteUnconfirmed ==
    /\ editOpen
    /\ ~editLoading
    /\ editLoading' = TRUE
    /\ editOp' = [Idle EXCEPT !.pc = "list"]
    /\ UNCHANGED <<editMedia, editOpen, showDeleteConfirm, editFormData,
                   onMediaUpdatedCalls>>
    /\ UNCHANGED <<storeVars, appVars, addVars, toast>>

\* The red Delete button of the confirm row, up to the first await: the
\* ratings.list call is in flight.
handleDelete ==
    /\ editOpen
    /\ showDeleteConfirm
    /\ ~editLoading
    /\ editLoading' = TRUE
    /\ editOp' = [Idle EXCEPT !.pc = "list"]
    /\ UNCHANGED <<editMedia, editOpen, showDeleteConfirm, editFormData,
                   onMediaUpdatedCalls>>
    /\ UNCHANGED <<storeVars, appVars, addVars, toast>>

\* the sequences a set can be listed as
RECURSIVE orders(_)
orders(S) ==
    IF S = {} THEN {<<>>}
    ELSE UNION {{<<x>> \o rest : rest \in orders(S \ {x})} : x \in S}

\* blink.db.ratings.list({where: {mediaId: id}})
ratingsOfMedia(db, id) == {r \in db : r.mediaId = id}

\* the call the loop awaits next, having awaited done calls of the list:
\* the delete of the next listed rating, or media.delete after the last
nextDeleteOp(ratings, done) ==
    IF done < Len(ratings)
    THEN [Idle EXCEPT !.pc = "deleteRating", !.ratings = ratings,
                      !.i = done + 1]
    ELSE [Idle EXCEPT !.pc = "deleteMedia", !.ratings = ratings,
                      !.i = done]

\* handleDelete after `await blink.db.ratings.list(...)` resolved: the
\* store answers with the ratings of the media in some order, and the loop
\* awaits its first call
deleteListResolved ==
    /\ editOp.pc = "list"
    /\ \E ratings \in orders(ratingsOfMedia(dbRatings, editMedia.id)) :
          editOp' = nextDeleteOp(ratings, 0)
    /\ UNCHANGED <<editMedia, editOpen, editLoading, showDeleteConfirm,
                   editFormData, onMediaUpdatedCalls>>
    /\ UNCHANGED <<storeVars, appVars, addVars, toast>>

\* handleDelete after `await blink.db.ratings.delete(rating.id)` resolved
deleteRatingResolved ==
    /\ editOp.pc = "deleteRating"
    /\ dbRatings' = {r \in dbRatings : r.id # editOp.ratings[editOp.i].id}
    /\ editOp' = nextDeleteOp(editOp.ratings, editOp.i)
    /\ UNCHANGED <<editMedia, editOpen, editLoading, showDeleteConfirm,
                   editFormData, onMediaUpdatedCalls>>
    /\ UNCHANGED <<dbMedia, nextMediaId, nextRatingId, appVars, addVars,
                   toast>>

\* handleDelete after `await blink.db.media.delete(media.id)` resolved,
\* with its finally block
deleteMediaResolved ==
    /\ editOp.pc = "deleteMedia"
    /\ dbMedia' = {m \in dbMedia : m.id # editMedia.id}
    /\ toast' = "Media Deleted"
    /\ editOpen' = FALSE
    /\ showDeleteConfirm' = FALSE
    /\ onMediaUpdatedCalls' = (onMediaUpdatedCalls + 1) % 2
    /\ editLoading' = FALSE
    /\ editOp' = Idle
    /\ UNCHANGED <<editMedia, editFormData>>
    /\ UNCHANGED <<dbRatings, nextMediaId, nextRatingId, appVars, addVars>>

\* a catch branch that closes the dialog and notifies the caller, as the
\* try block does after media.delete
deleteRejectedClosing ==
    /\ editOp.pc \in {"list", "deleteRating", "deleteMedia"}
    /\ toast' = "Error"
    /\ editOpen' = FALSE
    /\ showDeleteConfirm' = FALSE
    /\ onMediaUpdatedCalls' = (onMediaUpdatedCalls + 1) % 2
    /\ editLoading' = FALSE
    /\ editOp' = Idle
    /\ UNCHANGED <<editMedia, editFormData>>
    /\ UNCHANGED <<storeVars, appVars, addVars>>

\* a catch branch without the finally block: setLoading(false) is not
\* reached
deleteRejectedLoading ==
    /\ editOp.pc \in {"list", "deleteRating", "deleteMedia"}
    /\ toast' = "Error"
    /\ editOp' = Idle
    /\ UNCHANGED <<editMedia, editOpen, editLoading, showDeleteConfirm,
                   editFormData, onMediaUpdatedCalls>>
    /\ UNCHANGED <<storeVars, appVars, addVars>>

\* handleDelete's catch branch, with its finally block: the awaited call
\* (ratings.list, a ratings.delete, or media.delete) failed
deleteRejected ==
    /\ editOp.pc \in {"list", "deleteRating", "deleteMedia"}
    /\ toast' = "Error"
    /\ editLoading' = FALSE
    /\ editOp' = Idle
    /\ UNCHANGED <<editMedia, editOpen, showDeleteConfirm, editFormData,
                   onMediaUpdatedCalls>>
    /\ UNCHANGED <<storeVars, appVars, addVars>>


(***************************************************************************)
(* Specifications.  Each draws the inputs of the handlers from its own     *)
(* small sets.                                                             *)
(***************************************************************************)

\* no id generated yet
IdInit ==
    /\ nextMediaId = FirstMediaId
    /\ nextRatingId = FirstRatingId

\* The page as it is constructed, over a store that holds one media and
\* possibly a rating that user u1 saved in an earlier session.
Init ==
    /\ dbMedia = {SeedMedia1}
    /\ dbRatings \in {{}, {SeedRating}}
    /\ IdInit /\ AppInit /\ AddInit /\ EditInit /\ toast = ""

\* The catalog browser with user u1 signed in and its two loads done: its
\* list and its map are the store's.
AppLoaded ==
    /\ user = "u1"
    /\ loading = FALSE
    /\ media = mediaList(dbMedia)
    /\ userRatings \in ratingsMaps(ratingsOfUser(dbRatings, "u1"))
    /\ searchQuery = <<>>
    /\ selectedMedia = NoMedia
    /\ showRatingDialog = FALSE
    /\ rating = 0
    /\ review = <<>>
    /\ mediaLoads = 0
    /\ ratingLoads = <<>>
    /\ submits = <<>>

\* ... with the page loaded for user u1.
InitLoaded ==
    /\ dbMedia = {SeedMedia1}
    /\ dbRatings \in {{}, {SeedRating}}
    /\ IdInit /\ AppLoaded /\ AddInit /\ EditInit /\ toast = ""

\* ... over a store that holds two media and no rating.
InitCatalog ==
    /\ dbMedia = {SeedMedia1, SeedMedia2}
    /\ dbRatings = {}
    /\ IdInit /\ AppInit /\ AddInit /\ EditInit /\ toast = ""

\* media with letters of both cases in titles and descriptions
FilterMedia ==
    {SeedMedia1, SeedMedia2,
     [SeedMedia1 EXCEPT !.id = 3, !.createdAt = 3, !.title = <<"A", "b">>],
     [SeedMedia2 EXCEPT !.id = 4, !.createdAt = 4, !.title = <<"b">>,
                        !.description = <<"b", "A">>]}

\* ... with the page loaded over some of these media.
InitFilter ==
    /\ dbMedia \in SUBSET FilterMedia
    /\ dbRatings = {}
    /\ IdInit /\ AppLoaded /\ AddInit /\ EditInit /\ toast = ""

\* SpecFilter: the search box of the loaded page, and the rating dialog
\* opened from the cards that the filter leaves.
NextFilter ==
    \/ \E text \in FilterStrings : setSearchQuery(text)
    \/ \E m \in Range(filteredMedia) : handleRateMedia(m)
    \/ setShowRatingDialog(FALSE)

SpecFilter == InitFilter /\ [][NextFilter]_vars

\* SpecApp: one page session of the catalog browser with one user, who
\* signs in and out, rates with five stars and may press Save again while
\* earlier submissions are in flight.
NextApp ==
    \/ \E u \in {"u1", NoUser} : onAuthStateChanged(u, FALSE)
    \/ loadMediaResolved
    \/ loadMediaRejected
    \/ \E i \in 1..MaxLoads : ratingsListServed(i)
    \/ \E i \in 1..MaxLoads : loadUserRatingsResolved(i)
    \/ \E i \in 1..MaxLoads : loadUserRatingsRejected(i)
    \/ \E m \in Range(media) : handleRateMedia(m)
    \/ setRating(MaxStars)
    \/ setShowRatingDialog(FALSE)
    \/ handleSubmitRating
    \/ \E i \in 1..MaxInflight : submitResolved(i)
    \/ \E i \in 1..MaxInflight : submitRejected(i)

SpecApp == Init /\ [][NextApp]_vars

\* SpecRating: the rating dialog of the loaded page of one user, who
\* stays signed in, with every review text and the lowest and the highest
\* star; one submission at a time.
NextRating ==
    \/ \E m \in Range(media) : handleRateMedia(m)
    \/ \E star \in {1, MaxStars} : setRating(star)
    \/ \E text \in Strings : setReview(text)
    \/ setShowRatingDialog(FALSE)
    \/ submits = <<>> /\ handleSubmitRating
    \/ submitResolved(1)
    \/ submitRejected(1)

SpecRating == InitLoaded /\ [][NextRating]_vars

\* SpecUsers: two users who sign in one after the other in one page
\* session; one submission at a time.
NextUsers ==
    \/ \E u \in Users \cup {NoUser} : onAuthStateChanged(u, FALSE)
    \/ loadMediaResolved
    \/ loadMediaRejected
    \/ \E i \in 1..MaxLoads : ratingsListServed(i)
    \/ \E i \in 1..MaxLoads : loadUserRatingsResolved(i)
    \/ \E i \in 1..MaxLoads : loadUserRatingsRejected(i)
    \/ \E m \in Range(media) : handleRateMedia(m)
    \/ setRating(MaxStars)
    \/ setShowRatingDialog(FALSE)
    \/ submits = <<>> /\ handleSubmitRating
    \/ submitResolved(1)
    \/ submitRejected(1)

SpecUsers == Init /\ [][NextUsers]_vars

\* SpecAdd: the Add dialog alone.
NextAdd ==
    \/ \E value \in BOOLEAN : addSetOpen(value)
    \/ \E value \in Strings : addHandleInputChange("title", value)
    \/ \E value \in {"movie", "book"} : addHandleInputChange("type", value)
    \/ \E value \in genres(addFormData.type) :
          addHandleInputChange("genre", value)
    \/ addHandleInputChange("releaseYear", "2020")
    \/ addHandleInputChange("description", <<" ">>)
    \/ addHandleSubmit
    \/ addCreateResolved
    \/ addCreateRejected

SpecAdd == InitCatalog /\ [][NextAdd]_vars


\* SpecEdit: the Edit dialog alone, with its form and its update.
NextEdit ==
    \/ \E newOpen \in BOOLEAN : editOnOpenChange(newOpen)
    \/ \E value \in Strings : editHandleInputChange("title", value)
    \/ \E value \in {"movie", "book"} : editHandleInputChange("type", value)
    \/ \E value \in {<<" ">>, <<"a">>} :
          editHandleInputChange("description", value)
    \/ editHandleSubmit
    \/ editUpdateResolved
    \/ editUpdateRejected

SpecEdit == InitCatalog /\ [][NextEdit]_vars

\* SpecCatalog: the rating dialog of the loaded page of one user over two
\* media; the dialog can be cancelled and opened for the other media while
\* a submission is awaited.
InitCatalogLoaded ==
    /\ dbMedia = {SeedMedia1, SeedMedia2}
    /\ dbRatings \in {{}, {SeedRating}}
    /\ IdInit /\ AppLoaded /\ AddInit /\ EditInit /\ toast = ""

NextCatalog ==
    \/ \E m \in Range(media) : handleRateMedia(m)
    \/ \E star \in {1, MaxStars} : setRating(star)
    \/ setReview(<<"a">>)
    \/ setShowRatingDialog(FALSE)
    \/ submits = <<>> /\ handleSubmitRating
    \/ submitResolved(1)
    \/ submitRejected(1)

SpecCatalog == InitCatalogLoaded /\ [][NextCatalog]_vars

\* SpecDialogs: the Add dialog and the Edit dialog of the first media, with
\* the submit, the update and the delete; every store call that a dialog
\* awaits resolves or fails in the end.  The Add form is filled in from
\* the title down.
InitDialogs ==
    /\ dbMedia = {SeedMedia1}
    /\ dbRatings = OtherRatings
    /\ IdInit /\ AppInit /\ AddInit /\ EditInit /\ toast = ""

NextDialogs ==
    \/ addSetOpen(TRUE)
    \/ addHandleInputChange("title", <<"a">>)
    \/ addFormData.title # <<>> /\ addHandleInputChange("type", "movie")
    \/ addFormData.type # "" /\ addHandleInputChange("genre", "Action")
    \/ addFormData.genre # "" /\ addHandleInputChange("releaseYear", "2020")
    \/ addHandleSubmit
    \/ addCreateResolved
    \/ addCreateRejected
    \/ \E newOpen \in BOOLEAN : editOnOpenChange(newOpen)
    \/ editHandleInputChange("title", <<>>)
    \/ editHandleSubmit
    \/ editUpdateResolved
    \/ editUpdateRejected
    \/ \E value \in BOOLEAN : setShowDeleteConfirm(value)
    \/ handleDelete
    \/ deleteListResolved
    \/ deleteRatingResolved
    \/ deleteMediaResolved
    \/ deleteRejected

\* a call that is awaited is answered
CallsResolve ==
    /\ WF_vars(addCreateResolved \/ addCreateRejected)
    /\ WF_vars(editUpdateResolved \/ editUpdateRejected)
    /\ WF_vars(deleteListResolved \/ deleteRatingResolved
                  \/ deleteMediaResolved \/ deleteRejected)

SpecDialogs == InitDialogs /\ [][NextDialogs]_vars /\ CallsResolve

\* SpecDelete: the delete of the Edit dialog of the first media, beside
\* the loaded catalog browser in which user u1 rates.  The two dialogs are
\* modal: neither is opened while the other is open, and the Edit dialog
\* can be dismissed while its handler awaits.
InitDelete ==
    /\ dbMedia = {SeedMedia1}
    /\ dbRatings \in {OtherRatings, OtherRatings \cup {SeedRating}}
    /\ IdInit /\ AppLoaded /\ AddInit /\ EditInit /\ toast = ""

NextDelete ==
    \/ ~showRatingDialog /\ editOnOpenChange(TRUE)
    \/ editOnOpenChange(FALSE)
    \/ \E value \in BOOLEAN : setShowDeleteConfirm(value)
    \/ handleDelete
    \/ deleteListResolved
    \/ deleteRatingResolved
    \/ deleteMediaResolved
    \/ deleteRejected
    \/ ~editOpen /\ \E m \in Range(media) : handleRateMedia(m)
    \/ setRating(MaxStars)
    \/ setShowRatingDialog(FALSE)
    \/ submits = <<>> /\ handleSubmitRating
    \/ submitResolved(1)
    \/ submitRejected(1)

SpecDelete == InitDelete /\ [][NextDelete]_vars


(***************************************************************************)
(* The claims.                                                             *)
(***************************************************************************)

\* the ratings the store holds of the signed-in user for media id
ownRatings(id) == {r \in dbRatings : r.userId = user /\ r.mediaId = id}

\* the call issued last
lastCall(calls) == calls[Len(calls)]

\* C1: in one page session of one user, whatever the order in which store
\* calls resolve or fail, the store never holds two Rating records of one
\* (userId, mediaId) pair.
C1_OneRatingPerUserAndMedia ==
    \A r1, r2 \in dbRatings :
        (r1.userId = r2.userId /\ r1.mediaId = r2.mediaId) => r1.id = r2.id

\* C2: handleSubmitRating invoked while rating is 0 issues no create and no
\* update call and leaves the store, the map, the open flag and both inputs
\* as they are; and no rating outside 1..5 is ever sent to or kept by the
\* store.
C2_ZeroRatingIsNotSubmitted ==
    [][/\ (rating = 0 /\ handleSubmitRating) =>
            UNCHANGED <<dbRatings, dbMedia, userRatings, showRatingDialog,
                        rating, review, submits>>
       /\ \A call \in Range(submits') : call.rating \in Stars
       /\ \A r \in dbRatings' : r.rating \in Stars]_vars

\* C2, the case: Save was pressed with no star chosen, and the handler
\* answered with its validation toast.
C2_Witness ==
    /\ rendered /\ showRatingDialog /\ rating = 0
    /\ toast = "Rating Required"
    /\ submits = <<>>

\* C3: when the store holds a Rating of the signed-in user for the selected
\* media, submitting a rating in 1..5 issues exactly one call, an update
\* addressed to that record's id; and when an update succeeds the map entry
\* keeps its id and takes the submitted rating.
C3_ExistingRatingIsUpdated ==
    [][/\ (handleSubmitRating /\ rating \in Stars
             /\ ownRatings(selectedMedia.id) # {}) =>
            /\ Len(submits') = Len(submits) + 1
            /\ lastCall(submits').op = "update"
            /\ \E r \in ownRatings(selectedMedia.id) :
                  lastCall(submits').id = r.id
       /\ \A i \in DOMAIN submits :
            (submitResolved(i) /\ submits[i].op = "update") =>
               /\ hasRating(userRatings, submits[i].data.mediaId)
               /\ userRatings'[submits[i].data.mediaId].id =
                    userRatings[submits[i].data.mediaId].id
               /\ userRatings'[submits[i].data.mediaId].rating =
                    submits[i].rating]_vars

\* C4: when the store holds no Rating of the signed-in user for the
\* selected media, submitting a rating in 1..5 issues exactly one call, a
\* create, whose review is null if the review input is blank; and when a
\* create succeeds the map entry is the record created.
C4_NewRatingIsCreated ==
    [][/\ (handleSubmitRating /\ rating \in Stars
             /\ ownRatings(selectedMedia.id) = {}) =>
            /\ Len(submits') = Len(submits) + 1
            /\ lastCall(submits').op = "create"
            /\ lastCall(submits').data.rating = rating
            /\ review = <<>> => lastCall(submits').data.review = NULL
       /\ \A i \in DOMAIN submits :
            (submitResolved(i) /\ submits[i].op = "create") =>
               userRatings'[submits[i].data.mediaId] = submits[i].data]_vars

\* n whitespace characters
spaces(n) == [k \in 1..n |-> " "]

\* value is what a submission may write for the review input text: null
\* when text holds nothing but whitespace, and otherwise text without the
\* whitespace before its first and after its last other character
isReviewOf(value, text) ==
    IF \A k \in DOMAIN text : text[k] = " "
    THEN value = NULL
    ELSE /\ value # NULL
         /\ value # <<>>
         /\ Head(value) # " "
         /\ value[Len(value)] # " "
         /\ \E before, after \in 0..Len(text) :
               text = spaces(before) \o value \o spaces(after)

\* C5: the review a submission writes, in the record it creates, in the
\* payload of its update and in the map entry, is the review input without
\* its leading and trailing whitespace, and null when the input is empty or
\* all whitespace; the store and the map take exactly that value.
C5_ReviewIsTrimmedOrNull ==
    [][/\ (handleSubmitRating /\ rating # 0) =>
            /\ isReviewOf(lastCall(submits').review, review)
            /\ lastCall(submits').data.review = lastCall(submits').review
       /\ \A i \in DOMAIN submits :
            submitResolved(i) =>
               /\ userRatings'[submits[i].data.mediaId].review =
                    submits[i].review
               /\ \A r \in dbRatings' :
                     r.id = submits[i].id => r.review = submits[i].review]_vars

\* C5, the case: a review typed with whitespace around it is on its way to
\* the store without it.
C5_Witness ==
    /\ submits # <<>>
    /\ review \in {<<" ", "a">>, <<"a", " ">>}
    /\ submits[1].review = <<"a">>
    /\ submits[1].data.review = <<"a">>

\* the ids of the ratings in the store
ratingIds(db) == {r.id : r \in db}

\* the step puts a store call of handleDelete in flight
deleteCallIssued ==
    /\ editOp'.pc \in {"list", "deleteRating", "deleteMedia"}
    /\ editOp' # editOp

\* C6: media.delete of the Edit dialog's delete is issued only when the
\* ratings list call and one ratings.delete per listed rating have
\* succeeded, one at a time and in the order listed; and when media.delete
\* has succeeded the store holds neither the Media record nor a Rating
\* whose mediaId is its id.
C6_DeleteCascade ==
    [][/\ (deleteCallIssued /\ editOp'.pc = "deleteRating") =>
            \/ deleteListResolved /\ editOp'.i = 1
            \/ /\ deleteRatingResolved
               /\ editOp'.ratings = editOp.ratings
               /\ editOp'.i = editOp.i + 1
               /\ editOp.ratings[editOp.i].id \notin ratingIds(dbRatings')
       /\ (deleteCallIssued /\ editOp'.pc = "deleteMedia") =>
            /\ \/ deleteListResolved /\ editOp'.ratings = <<>>
               \/ deleteRatingResolved /\ editOp.i = Len(editOp.ratings)
            /\ editOp'.i = Len(editOp'.ratings)
       /\ deleteMediaResolved =>
            /\ \A m \in dbMedia' : m.id # editMedia.id
            /\ ratingsOfMedia(dbRatings', editMedia.id) = {}]_vars

\* C7: when the k-th ratings.delete of a cascade fails, the k-1 ratings
\* listed before it are out of the store, the ratings listed from the k-th
\* on and the Media record are in the store as before, no call of the
\* cascade follows, the caller is not notified and the dialog is not
\* closed.
C7_PartialDelete ==
    [][(deleteRejected /\ editOp.pc = "deleteRating") =>
          /\ \A j \in 1..(editOp.i - 1) :
                editOp.ratings[j].id \notin ratingIds(dbRatings')
          /\ \A j \in editOp.i..Len(editOp.ratings) :
                editOp.ratings[j].id \in ratingIds(dbRatings')
          /\ dbMedia' = dbMedia
          /\ editOp' = Idle
          /\ onMediaUpdatedCalls' = onMediaUpdatedCalls
          /\ editOpen' = editOpen]_vars

\* C7, the case: of the three ratings of the media the first listed is
\* deleted, the delete of the second has failed, and the dialog is open on
\* a media that is still in the store.
C7_Witness ==
    /\ toast = "Error"
    /\ editOp = Idle /\ ~editLoading
    /\ editOpen /\ showDeleteConfirm
    /\ onMediaUpdatedCalls = 0
    /\ SeedMedia1 \in dbMedia
    /\ SeedRating \in dbRatings
    /\ Cardinality(dbRatings) = 2
    /\ dbRatings \subseteq OtherRatings \cup {SeedRating}

\* C8 as stated: a store call of handleDelete is issued only while the
\* dialog is in the confirm state that Delete entered since it was last
\* opened.
C8_CallsOnlyWhileConfirmed ==
    [][deleteCallIssued => showDeleteConfirm /\ showDeleteConfirm']_vars

\* C8, amended: a cascade starts, with its ratings.list call, only by the
\* confirm button pressed in the open dialog in the confirm state; the
\* confirm state is entered only by the Delete button of the open dialog
\* and is left by Cancel of the confirm row and by reopening; a
\* ratings.delete or media.delete call is issued only as the next call of
\* a cascade so started, whether or not the dialog has been closed or
\* reopened meanwhile.
C8_CascadeStartsConfirmed ==
    [][/\ (deleteCallIssued /\ editOp'.pc = "list") =>
            /\ handleDelete
            /\ editOpen /\ showDeleteConfirm
       /\ (deleteCallIssued /\ editOp'.pc # "list") =>
            editOp.pc \in {"list", "deleteRating"}
       /\ (showDeleteConfirm' /\ ~showDeleteConfirm) =>
            editOpen /\ setShowDeleteConfirm(TRUE)
       /\ editOnOpenChange(TRUE) => ~showDeleteConfirm'
       /\ setShowDeleteConfirm(FALSE) => ~showDeleteConfirm']_vars

\* C8, the case: the dialog was dismissed and reopened during a cascade,
\* which goes on to its next call behind a dialog in the unconfirmed state.
C8_Witness ==
    /\ editOp.pc \in {"deleteRating", "deleteMedia"}
    /\ editOp.i > 0
    /\ editOpen
    /\ ~showDeleteConfirm

\* C9: the Add form submitted while the title, the type, the genre or the
\* release year of the draft is empty issues no media.create call and
\* leaves the draft, the open flag and the store as they are.
C9_IncompleteDraftIsNotSubmitted ==
    [][(/\ addHandleSubmit
        /\ \/ addFormData.title = <<>>
           \/ addFormData.type = ""
           \/ addFormData.genre = ""
           \/ addFormData.releaseYear = "") =>
          UNCHANGED <<addCalls, addLoading, addFormData, addOpen, dbMedia,
                      dbRatings, nextMediaId>>]_vars

\* C9, the case: a draft with a title, a type and a year but no genre was
\* submitted, and the handler answered with its validation toast.
C9_Witness ==
    /\ toast = "Missing Information"
    /\ addOpen /\ ~addLoading /\ addCalls = <<>>
    /\ addFormData.title # <<>>
    /\ addFormData.type # ""
    /\ addFormData.releaseYear # ""
    /\ addFormData.genre = ""

\* C10: every Media record that a dialog sends to the store or that the
\* store holds has a title that is not the empty string.
C10_TitleIsNotEmpty ==
    /\ \A call \in Range(addCalls) : call.title # <<>>
    /\ \A m \in dbMedia : m.title # <<>>

\* C11: in the Add form a change of the type field, to whatever value,
\* empties the genre and leaves the other fields of the draft as they are;
\* a change of a field other than type and genre leaves the genre as it is.
C11_TypeChangeClearsGenre ==
    [][/\ \A value \in {"movie", "tv", "book"} :
            addHandleInputChange("type", value) =>
               /\ addFormData'.type = value
               /\ addFormData'.genre = ""
               /\ \A f \in FormFields \ {"type", "genre"} :
                     addFormData'[f] = addFormData[f]
       /\ (\/ \E value \in Strings :
                \/ addHandleInputChange("title", value)
                \/ addHandleInputChange("description", value)
                \/ addHandleInputChange("coverImage", value)
           \/ \E value \in {"1900", "2020"} :
                addHandleInputChange("releaseYear", value)) =>
            addFormData'.genre = addFormData.genre]_vars

\* C11, the case: a draft whose type is set, with a title and a year
\* typed, and whose genre is empty: the type was chosen last.
C11_Witness ==
    /\ addOpen
    /\ addFormData.type = "book"
    /\ addFormData.genre = ""
    /\ addFormData.title # <<>>
    /\ addFormData.releaseYear = "2020"

\* C12: a rating submission leaves the dialog open and the inputs as they
\* are while its call is awaited, and when the create or update call fails
\* the failure leaves the dialog open flag, the rating and review inputs,
\* the map and the store as they are.
C12_FailedSubmitKeepsDialog ==
    [][/\ (handleSubmitRating /\ rating # 0) =>
            /\ lastCall(submits').rating = rating
            /\ UNCHANGED <<showRatingDialog, selectedMedia, rating, review,
                           userRatings, dbRatings>>
       /\ (\E i \in DOMAIN submits : submitRejected(i)) =>
            UNCHANGED <<showRatingDialog, selectedMedia, rating, review,
                        userRatings, dbRatings>>]_vars

\* C12, the case: a submission with a review has failed, and the dialog is
\* open with the stars and the text that were submitted.
C12_Witness ==
    /\ toast = "Error"
    /\ submits = <<>>
    /\ showRatingDialog
    /\ rating = MaxStars
    /\ review = <<"a", " ">>
    /\ dbRatings \subseteq {SeedRating}
    /\ userRatings \in ratingsMaps(dbRatings)

\* C13: when the media.create call of an Add submission fails, the store,
\* the open flag, the draft and the count of onMediaAdded calls are as
\* before; when it succeeds, the store has exactly one record more, the
\* record submitted, the draft is all-empty, the dialog is closed and
\* onMediaAdded has been called once.
C13_AddCreateOutcome ==
    [][/\ addCreateRejected =>
            UNCHANGED <<dbMedia, dbRatings, addOpen, addFormData,
                        onMediaAddedCalls>>
       /\ addCreateResolved =>
            /\ Cardinality(dbMedia') = Cardinality(dbMedia) + 1
            /\ dbMedia' \ dbMedia = {addCalls[1]}
            /\ dbMedia \subseteq dbMedia'
            /\ \A f \in {"title", "description", "coverImage"} :
                  addFormData'[f] = <<>>
            /\ \A f \in {"type", "genre", "releaseYear", "country"} :
                  addFormData'[f] = ""
            /\ ~addOpen'
            /\ onMediaAddedCalls' = (onMediaAddedCalls + 1) % 2]_vars

\* C13, the case: a create has failed, and the dialog is open on the
\* complete draft that was submitted, the store without a new record.
C13_Witness ==
    /\ toast = "Error"
    /\ addOpen /\ ~addLoading /\ addCalls = <<>>
    /\ ~addMissingInformation(addFormData)
    /\ dbMedia = {SeedMedia1, SeedMedia2}
    /\ onMediaAddedCalls = 0

\* the two characters are one letter, whatever their case
sameLetter(c, d) == c = d \/ {c, d} = {"a", "A"}

\* q occurs in s, whatever the case of the letters
occursIn(q, s) ==
    \E i \in 1..(Len(s) + 1) :
        /\ i + Len(q) - 1 <= Len(s)
        /\ \A k \in 1..Len(q) : sameLetter(s[i + k - 1], q[k])

\* C14: the filtered list is a sub-list of the loaded list in its order;
\* it is the loaded list when the filter is empty, and otherwise holds
\* exactly the records in whose title, or in whose description if they
\* have one, the filter occurs, whatever the case of the letters.
C14_FilterIsSubstringMatch ==
    /\ \E at \in [1..Len(filteredMedia) -> 1..Len(media)] :
          /\ \A k \in 1..Len(filteredMedia) : filteredMedia[k] = media[at[k]]
          /\ \A j, k \in 1..Len(filteredMedia) : j < k => at[j] < at[k]
    /\ searchQuery = <<>> => filteredMedia = media
    /\ searchQuery # <<>> =>
          \A m \in Range(media) :
             m \in Range(filteredMedia) <=>
                \/ occursIn(searchQuery, m.title)
                \/ m.description # NULL /\ occursIn(searchQuery, m.description)

\* C14, the case: of four loaded media the filter "ba" leaves the one in
\* whose description "bA" occurs, and not those without a description.
C14_Witness ==
    /\ searchQuery = <<"b", "a">>
    /\ Len(media) = 4
    /\ Len(filteredMedia) = 1
    /\ filteredMedia[1].title = <<"b">>
    /\ filteredMedia[1].description = <<"b", "A">>

\* C15: every Rating in the store refers to a Media that is in the store.
C15_RatingsReferToMedia ==
    \A r \in dbRatings : \E m \in dbMedia : m.id = r.mediaId

\* C16: in the Add dialog and in the Edit dialog, once a submission, an
\* update or a delete has set loading, loading becomes false again,
\* whether the awaited calls succeed or one of them fails.
C16_LoadingEnds ==
    /\ addLoading ~> ~addLoading
    /\ editLoading ~> ~editLoading

\* C16, the case: the second ratings.delete of a cascade has failed, and
\* the Edit dialog is not loading.
C16_Witness ==
    /\ toast = "Error"
    /\ ~editLoading
    /\ editOp = Idle
    /\ showDeleteConfirm
    /\ Cardinality(dbRatings) = 1
    /\ SeedMedia1 \in dbMedia

\* C17: right after the rating dialog is opened for a media, whatever the
\* inputs were before, the rating input is the rating of the map entry of
\* that media and the review input is its review, empty if it has none;
\* they are 0 and empty if the map has no entry for the media.
C17_DialogIsSeededFromMap ==
    [][\A m \in Range(media) :
          handleRateMedia(m) =>
             /\ showRatingDialog'
             /\ selectedMedia' = m
             /\ m.id \in DOMAIN userRatings =>
                   /\ rating' = userRatings[m.id].rating
                   /\ userRatings[m.id].review = NULL => review' = <<>>
                   /\ userRatings[m.id].review # NULL =>
                         review' = userRatings[m.id].review
             /\ m.id \notin DOMAIN userRatings =>
                   rating' = 0 /\ review' = <<>>]_vars

\* C17, the case: an update has succeeded, which closed the dialog and
\* reset the inputs, and the dialog is open again on the stars and the
\* review of the map entry that the update wrote.
C17_Witness ==
    /\ toast = "Rating Updated"
    /\ submits = <<>>
    /\ showRatingDialog
    /\ selectedMedia = SeedMedia1
    /\ DOMAIN userRatings = {SeedMedia1.id}
    /\ rating = MaxStars
    /\ rating = userRatings[SeedMedia1.id].rating
    /\ review = <<"a">>
    /\ review = userRatings[SeedMedia1.id].review

\* C18: a rating submission of the signed-in user issues a create only of
\* a record with that user's id, and an update only of a record of that
\* user.
C18_WritesAreOfTheUser ==
    [][(handleSubmitRating /\ rating # 0) =>
          /\ lastCall(submits').op = "create" =>
                lastCall(submits').data.userId = user
          /\ lastCall(submits').op = "update" =>
                \A r \in dbRatings :
                   r.id = lastCall(submits').id => r.userId = user]_vars

\* C19: an entry of the map that carries a record of the signed-in user,
\* as a successful submission leaves it, is in the map with the same id
\* after every step in which the user stays signed in, save a step in
\* which a later submission for the same media succeeds and writes its
\* own; in particular after the step in which a loadUserRatings call
\* resolves.
C19_MapEntryPersists ==
    [][\A m \in DOMAIN userRatings :
          (/\ userRatings[m].userId = user
           /\ user' = user
           /\ ~\E i \in DOMAIN submits :
                 submitResolved(i) /\ submits[i].data.mediaId = m) =>
             /\ m \in DOMAIN userRatings'
             /\ userRatings'[m].id = userRatings[m].id]_vars

\* C20: when a submission for one media succeeds while the dialog is open
\* for another media, the map changes in the entry of the submitted media
\* only, the dialog stays open, and its rating and review inputs stay as
\* they are.
C20_LateSuccessLeavesOtherDialog ==
    [][\A i \in DOMAIN submits :
          (/\ submitResolved(i)
           /\ showRatingDialog
           /\ selectedMedia.id # submits[i].data.mediaId) =>
             /\ DOMAIN userRatings' =
                  DOMAIN userRatings \cup {submits[i].data.mediaId}
             /\ \A m \in DOMAIN userRatings \ {submits[i].data.mediaId} :
                   userRatings'[m] = userRatings[m]
             /\ showRatingDialog'
             /\ selectedMedia' = selectedMedia
             /\ rating' = rating
             /\ review' = review]_vars

====
